---- MODULE Spec2Model ----
(***************************************************************************)
(* Model of streamlit_app.py: the Streamlit script of the Lithuanian       *)
(* Market Product Analyzer.  One action is one run of the script, started  *)
(* by one widget interaction.  Texts are sequences of tokens; the regular  *)
(* expressions and json.loads are computed over those tokens.              *)
(***************************************************************************)
EXTENDS Integers, Sequences, FiniteSets, TLC

VARIABLES
    tech_spec,             \* the text_area value (line 46)
    price_calc_objective,  \* the selectbox value (line 117)
    custom_calc_unit,      \* the unit type text_input value (lines 124-132)
    search_domains,        \* st.session_state.search_domains
    unticked,              \* domains whose checkbox the last run drew unticked
    add_result,            \* what "Add Domain" did in the last run (lines 75-80)
    reset_from,            \* the list the reset of the last run replaced (line 103)
    search_history,        \* st.session_state.search_history
    prompt,                \* the prompt of the last search (line 420)
    sent_domains,          \* search_domain_filter of the last request (line 209)
    response,              \* the provider's answer to the last request
    outcome,               \* what the last display_results did
    http_requests,         \* requests.post calls made so far
    searches,              \* activations of "Search Products" so far
    runs,                  \* script runs so far
    crashed,               \* the last script run ended in an uncaught exception
    phase,                 \* two-phase search: the stage of the orchestrator
    discovered,            \* two-phase search: the URLs discovered, in order
    url_results,           \* two-phase search: the outcome of each URL processed
    aggregate,             \* two-phase search: the products gathered so far
    warnings               \* two-phase search: the URLs a warning was recorded for

\* the state of the two-phase orchestrator
orchVars == <<phase, discovered, url_results, aggregate, warnings>>

\* the state of the script
appVars == <<tech_spec, price_calc_objective, custom_calc_unit, search_domains,
             unticked, add_result, reset_from, search_history, prompt, sent_domains,
             response, outcome, http_requests, searches, runs, crashed>>

vars == <<tech_spec, price_calc_objective, custom_calc_unit, search_domains,
          unticked, add_result, reset_from, search_history, prompt, sent_domains,
          response, outcome, http_requests, searches, runs, crashed, orchVars>>

(***************************************************************************)
(* Bounds of the model.                                                    *)
(***************************************************************************)
MaxProse == 2   \* tokens of prose around an embedded JSON document
MaxRuns == 4    \* script runs (widget interactions) in a session
MaxDomainRuns == 8    \* script runs in a session of domain operations
MaxDomainSearches == 1    \* searches in a session of domain operations
MaxPromptRuns == 4    \* script runs in a session that builds a prompt
MaxUrls == 3    \* URLs discovered by the two-phase search

(***************************************************************************)
(* Tokens.  A text is a sequence of tokens: the JSON punctuation, the      *)
(* double quote "dq", a whitespace character "sp", the digit "1" and       *)
(* words.  A JSON string literal is dq, any tokens but dq, dq.             *)
(***************************************************************************)
WS == "sp"
DQ == "dq"
Digit == "1"

Max(S) == CHOOSE m \in S : \A n \in S : n <= m

Min(S) == CHOOSE m \in S : \A n \in S : m <= n

\* the element of a one-element set; Only({e(x) : x \in {v}}) is e(v) with v
\* computed once
Only(S) == CHOOSE v \in S : TRUE

(***************************************************************************)
(* JSON values as Python holds them after json.loads.                      *)
(***************************************************************************)
Num(n) == [t |-> "num", n |-> n]

Str(body) == [t |-> "str", s |-> body]

Arr(items) == [t |-> "arr", items |-> items]

Obj(keys, vals) == [t |-> "obj", keys |-> keys, vals |-> vals]

NoValue == [t |-> "none"]

IsList(v) == v.t = "arr"

IsDict(v) == v.t = "obj"

\* key in d
HasKey(d, k) == IsDict(d) /\ \E i \in 1..Len(d.keys) : d.keys[i] = k

\* d[key]
GetKey(d, k) == d.vals[CHOOSE i \in 1..Len(d.keys) : d.keys[i] = k]

\* d[key] = v of a dict under construction: a repeated key keeps its place
PutKey(keys, vals, k, v) ==
    IF \E i \in 1..Len(keys) : keys[i] = k
    THEN <<keys, [vals EXCEPT ![CHOOSE i \in 1..Len(keys) : keys[i] = k] = v]>>
    ELSE <<Append(keys, k), Append(vals, v)>>

\* bool(v)
Truthy(v) ==
    CASE v.t = "num" -> TRUE
      [] v.t = "str" -> Len(v.s) > 0
      [] v.t = "arr" -> Len(v.items) > 0
      [] v.t = "obj" -> Len(v.keys) > 0
      [] OTHER -> FALSE

\* len(v) does not raise TypeError
HasLen(v) == v.t \in {"str", "arr", "obj"}

(***************************************************************************)
(* json.loads over tokens.                                                 *)
(***************************************************************************)
\* the first index >= i that holds no whitespace (Len(t)+1 when none)
SkipWs(t, i) ==
    Min({j \in i..Len(t) + 1 :
            (j = Len(t) + 1 \/ t[j] # WS) /\ \A k \in i..j - 1 : t[k] = WS})

ParseFail == [ok |-> FALSE, val |-> NoValue, pos |-> 0]

ParseOk(v, p) == [ok |-> TRUE, val |-> v, pos |-> p]

\* a number: the run of digits from i
ParseNumber(t, i) ==
    LET e == Max({j \in i..Len(t) : \A k \in i..j : t[k] = Digit})
    IN  ParseOk(Num(e - i + 1), e + 1)

\* a string literal whose opening quote is at i
ParseString(t, i) ==
    LET closes == {k \in i + 1..Len(t) : t[k] = DQ}
    IN  IF closes = {} THEN ParseFail
        ELSE ParseOk(Str(SubSeq(t, i + 1, Min(closes) - 1)), Min(closes) + 1)

RECURSIVE ParseValue(_, _)
RECURSIVE ParseElems(_, _, _)
RECURSIVE ParseMembers(_, _, _, _)

\* after the value r of an array, whose elements before it are acc
AfterElem(t, r, acc) ==
    IF ~r.ok THEN ParseFail
    ELSE Only({IF k > Len(t) THEN ParseFail
               ELSE IF t[k] = "," THEN ParseElems(t, SkipWs(t, k + 1), Append(acc, r.val))
               ELSE IF t[k] = "]" THEN ParseOk(Arr(Append(acc, r.val)), k + 1)
               ELSE ParseFail : k \in {SkipWs(t, r.pos)}})

\* the elements of an array from i, after acc
ParseElems(t, i, acc) == Only({AfterElem(t, r, acc) : r \in {ParseValue(t, i)}})

\* after the value r of the member named key
AfterMember(t, r, kv) ==
    IF ~r.ok THEN ParseFail
    ELSE Only({IF k > Len(t) THEN ParseFail
               ELSE IF t[k] = "," THEN ParseMembers(t, SkipWs(t, k + 1), kv[1], kv[2])
               ELSE IF t[k] = "}" THEN ParseOk(Obj(kv[1], kv[2]), k + 1)
               ELSE ParseFail : k \in {SkipWs(t, r.pos)}})

\* after the name ks of a member
AfterName(t, ks, keys, vals) ==
    IF ~ks.ok THEN ParseFail
    ELSE Only({IF c > Len(t) \/ t[c] # ":" THEN ParseFail
               ELSE Only({AfterMember(t, r, IF r.ok THEN PutKey(keys, vals, ks.val.s, r.val)
                                            ELSE <<keys, vals>>) :
                            r \in {ParseValue(t, SkipWs(t, c + 1))}}) :
               c \in {SkipWs(t, ks.pos)}})

\* the members of an object from i, after keys/vals
ParseMembers(t, i, keys, vals) ==
    IF i > Len(t) \/ t[i] # DQ THEN ParseFail
    ELSE Only({AfterName(t, ks, keys, vals) : ks \in {ParseString(t, i)}})

\* a JSON value that starts at i
ParseValue(t, i) ==
    IF i > Len(t) THEN ParseFail
    ELSE IF t[i] = Digit THEN ParseNumber(t, i)
    ELSE IF t[i] = DQ THEN ParseString(t, i)
    ELSE IF t[i] = "[" THEN
        Only({IF j <= Len(t) /\ t[j] = "]" THEN ParseOk(Arr(<<>>), j + 1)
              ELSE ParseElems(t, j, <<>>) : j \in {SkipWs(t, i + 1)}})
    ELSE IF t[i] = "{" THEN
        Only({IF j <= Len(t) /\ t[j] = "}" THEN ParseOk(Obj(<<>>, <<>>), j + 1)
              ELSE ParseMembers(t, j, <<>>, <<>>) : j \in {SkipWs(t, i + 1)}})
    ELSE ParseFail

\* json.loads(t): ok is FALSE where it raises JSONDecodeError
JsonLoads(t) ==
    Only({IF r.ok /\ SkipWs(t, r.pos) = Len(t) + 1 THEN r ELSE ParseFail :
            r \in {ParseValue(t, SkipWs(t, 1))}})

(***************************************************************************)
(* The step-1 pattern (line 258), re.search with re.DOTALL:                *)
(*   (\[\s*{.*}\s*\]|\{\s*"products"\s*:\s*\[.*\]\s*\})                    *)
(* The match starts at the leftmost index where an alternative matches;    *)
(* the greedy .* ends the match at the last closing pair of the text.      *)
(***************************************************************************)
\* \[\s*{.*}\s*\] from i: the index of the closing bracket, 0 when no match
Alt1End(t, i) ==
    IF t[i] # "[" THEN 0
    ELSE LET j == SkipWs(t, i + 1)
         IN  IF j > Len(t) \/ t[j] # "{" THEN 0
             ELSE LET ends == {e \in j + 2..Len(t) :
                                 /\ t[e] = "]"
                                 /\ \E q \in j + 1..e - 1 :
                                        t[q] = "}" /\ \A k \in q + 1..e - 1 : t[k] = WS}
                  IN  IF ends = {} THEN 0 ELSE Max(ends)

\* \{\s*"products"\s*:\s*\[.*\]\s*\} from i: the index of the closing brace, or 0
Alt2End(t, i) ==
    IF t[i] # "{" THEN 0
    ELSE LET j == SkipWs(t, i + 1)
         IN  IF j + 2 > Len(t) \/ SubSeq(t, j, j + 2) # <<DQ, "products", DQ>> THEN 0
             ELSE LET c == SkipWs(t, j + 3)
                  IN  IF c > Len(t) \/ t[c] # ":" THEN 0
                      ELSE LET m == SkipWs(t, c + 1)
                           IN  IF m > Len(t) \/ t[m] # "[" THEN 0
                               ELSE LET ends == {e \in m + 2..Len(t) :
                                                   /\ t[e] = "}"
                                                   /\ \E q \in m + 1..e - 1 :
                                                          t[q] = "]" /\ \A k \in q + 1..e - 1 : t[k] = WS}
                                    IN  IF ends = {} THEN 0 ELSE Max(ends)

PatternEnd(t, i) == IF t[i] = "[" THEN Alt1End(t, i) ELSE Alt2End(t, i)

\* re.match in place of re.search: the pattern is tried at the start only
JsonMatchAtStart(t) ==
    IF Len(t) > 0 /\ PatternEnd(t, 1) > 0
    THEN [found |-> TRUE, from |-> 1, to |-> PatternEnd(t, 1)]
    ELSE [found |-> FALSE, from |-> 0, to |-> 0]

\* re.search(pattern, content, re.DOTALL)
JsonMatch(t) ==
    Only({IF starts = {} THEN [found |-> FALSE, from |-> 0, to |-> 0]
          ELSE [found |-> TRUE, from |-> Min(starts), to |-> PatternEnd(t, Min(starts))] :
            starts \in {{i \in 1..Len(t) : PatternEnd(t, i) > 0}}})

(***************************************************************************)
(* The step-3 pattern (line 370), re.findall: (\[[\s\S]*\]|\{[\s\S]*\})    *)
(***************************************************************************)
\* the end of the match that starts at i, 0 when none starts there
LooseEnd(t, i) ==
    LET close == IF t[i] = "[" THEN "]" ELSE IF t[i] = "{" THEN "}" ELSE "none"
        ends == {e \in i + 1..Len(t) : t[e] = close}
    IN  IF ends = {} THEN 0 ELSE Max(ends)

RECURSIVE FindAllFrom(_, _)
\* the non-overlapping matches from i on, left to right
FindAllFrom(t, i) ==
    IF i > Len(t) THEN <<>>
    ELSE Only({IF e > 0 THEN <<SubSeq(t, i, e)>> \o FindAllFrom(t, e + 1)
               ELSE FindAllFrom(t, i + 1) : e \in {LooseEnd(t, i)}})

FindAll(t) == FindAllFrom(t, 1)

(***************************************************************************)
(* The text a provider writes for a JSON value: compact, or with           *)
(* whitespace around every structural token.                               *)
(***************************************************************************)
Pad(style) == IF style = "pretty" THEN <<WS>> ELSE <<>>

RECURSIVE Serialize(_, _)
RECURSIVE SerItems(_, _, _)
RECURSIVE SerMembers(_, _, _, _)

SerItems(items, i, style) ==
    IF i > Len(items) THEN <<>>
    ELSE Serialize(items[i], style)
         \o (IF i < Len(items) THEN <<",">> \o Pad(style) ELSE <<>>)
         \o SerItems(items, i + 1, style)

SerMembers(keys, vals, i, style) ==
    IF i > Len(keys) THEN <<>>
    ELSE <<DQ>> \o keys[i] \o <<DQ, ":">> \o Pad(style) \o Serialize(vals[i], style)
         \o (IF i < Len(keys) THEN <<",">> \o Pad(style) ELSE <<>>)
         \o SerMembers(keys, vals, i + 1, style)

Serialize(v, style) ==
    CASE v.t = "num" -> [k \in 1..v.n |-> Digit]
      [] v.t = "str" -> <<DQ>> \o v.s \o <<DQ>>
      [] v.t = "arr" ->
            IF v.items = <<>> THEN <<"[", "]">>
            ELSE <<"[">> \o Pad(style) \o SerItems(v.items, 1, style) \o Pad(style) \o <<"]">>
      [] v.t = "obj" ->
            IF v.keys = <<>> THEN <<"{", "}">>
            ELSE <<"{">> \o Pad(style) \o SerMembers(v.keys, v.vals, 1, style)
                 \o Pad(style) \o <<"}">>

(***************************************************************************)
(* query_perplexity (lines 204-238).  A reply is what the provider sends   *)
(* back: a status and a text (for 200 the message content).                *)
(***************************************************************************)
\* a query_perplexity that posts again after a non-200 answer
PostsWithRetry(reply) == IF reply.status = 200 THEN 1 ELSE 2

\* the requests.post calls of one query_perplexity call (line 233)
PostsPerQuery(reply) == 1

\* a query_perplexity without the status check of line 235
QueryPerplexityNoStatusCheck(reply) ==
    [error |-> FALSE, status |-> reply.status, content |-> reply.text]

\* the value query_perplexity returns (lines 235-238)
QueryPerplexity(reply) ==
    IF reply.status = 200
    THEN [error |-> FALSE, status |-> 200, content |-> reply.text]
    ELSE [error |-> TRUE, status |-> reply.status, content |-> reply.text]

(***************************************************************************)
(* display_results (lines 242-413).                                        *)
(***************************************************************************)
Placeholder(s) == [t |-> "placeholder", s |-> s]

\* product.get(key, default)
DictGet(product, key, default) ==
    IF HasKey(product, <<key>>) THEN GetKey(product, <<key>>) ELSE Placeholder(default)

\* the fields read with .get and their defaults (lines 299, 321-326, 355)
FieldDefaults ==
    [product_name |-> "Unknown Product", product_price |-> "N/A",
     provider |-> "N/A", provider_website |-> "N/A", product_sku |-> "N/A",
     evaluation |-> "No evaluation available."]

\* what the expander of one product shows
ProductView(product) ==
    [f \in DOMAIN FieldDefaults |-> DictGet(product, f, FieldDefaults[f])]

\* product.get raises AttributeError (line 299; line 464 in the history tab)
GetRaises(product) == ~IsDict(product)

\* properties.items() raises AttributeError (lines 347-350, 538-541)
ItemsRaises(product) ==
    /\ HasKey(product, <<"product_properties">>)
    /\ Truthy(GetKey(product, <<"product_properties">>))
    /\ ~IsDict(GetKey(product, <<"product_properties">>))

\* the detailed view of one product raises (lines 298-356, 489-547)
DetailRaises(product) == GetRaises(product) \/ ItemsRaises(product)

\* the products of `items` whose detailed view completes before one raises
RenderedPrefix(items) ==
    LET bad == {i \in 1..Len(items) : DetailRaises(items[i])}
    IN  IF bad = {} THEN items ELSE SubSeq(items, 1, Min(bad) - 1)

\* the for loop of lines 298-356 ends in an exception
RenderRaises(items) == \E i \in 1..Len(items) : DetailRaises(items[i])

\* steps 1 and 2 without the whole-text parse of lines 266 and 269
ParseContentNoWhole(content) ==
    Only({IF r1.ok THEN [raised |-> FALSE, step |-> 1, data |-> r1.val]
          ELSE [raised |-> TRUE, step |-> 0, data |-> NoValue] :
            r1 \in {Only({IF m.found THEN JsonLoads(SubSeq(content, m.from, m.to))
                          ELSE ParseFail : m \in {JsonMatch(content)}})}})

\* steps 1 and 2 with an empty list in place of the JSONDecodeError
ParseContentDefaultsEmpty(content) ==
    Only({IF r1.ok THEN [raised |-> FALSE, step |-> 1, data |-> r1.val]
          ELSE Only({IF r2.ok THEN [raised |-> FALSE, step |-> 2, data |-> r2.val]
                     ELSE [raised |-> FALSE, step |-> 2, data |-> Arr(<<>>)] :
                        r2 \in {JsonLoads(content)}}) :
            r1 \in {Only({IF m.found THEN JsonLoads(SubSeq(content, m.from, m.to))
                          ELSE ParseFail : m \in {JsonMatch(content)}})}})

\* steps 1 and 2 (lines 258-269): raised where JSONDecodeError leaves the try
ParseContent(content) ==
    Only({IF r1.ok THEN [raised |-> FALSE, step |-> 1, data |-> r1.val]
          ELSE Only({IF r2.ok THEN [raised |-> FALSE, step |-> 2, data |-> r2.val]
                     ELSE [raised |-> TRUE, step |-> 0, data |-> NoValue] :
                        r2 \in {JsonLoads(content)}}) :
            r1 \in {Only({IF m.found THEN JsonLoads(SubSeq(content, m.from, m.to))
                          ELSE ParseFail : m \in {JsonMatch(content)}})}})

\* lines 272-275 without the unwrapping of the "products" key
NormalizeNoUnwrap(data) == data

\* lines 272-275
Normalize(data) ==
    IF IsDict(data) /\ HasKey(data, <<"products">>)
    THEN GetKey(data, <<"products">>)
    ELSE data

RECURSIVE FallbackLoop(_, _, _, _)
\* the for loop of lines 376-391 from match i on; products and data are the
\* local variables products and potential_json (NoValue while unassigned)
FallbackLoop(matches, i, products, data) ==
    IF i > Len(matches) THEN [products |-> products, data |-> data]
    ELSE Only({IF ~r.ok THEN FallbackLoop(matches, i + 1, products, data)
               ELSE IF IsList(r.val) THEN [products |-> r.val, data |-> r.val]
               ELSE IF IsDict(r.val) /\ HasKey(r.val, <<"products">>)
                    THEN IF HasLen(GetKey(r.val, <<"products">>))
                         THEN [products |-> GetKey(r.val, <<"products">>), data |-> r.val]
                         ELSE FallbackLoop(matches, i + 1, GetKey(r.val, <<"products">>), r.val)
               ELSE FallbackLoop(matches, i + 1, products, r.val) :
                r \in {JsonLoads(matches[i])}})

\* line 394
FallbackFound(products) == IsList(products) /\ Len(products.items) > 0

NoEntry == [timestamp |-> 0]

\* lines 289-294
HistoryEntry(ts, spec, objective, products) ==
    [timestamp |-> ts, tech_spec |-> spec,
     price_calc_objective |-> objective, results |-> products.items]

Outcome(kind, step, data, products, entry, rendered, raw) ==
    [kind |-> kind, step |-> step, data |-> data, products |-> products,
     entry |-> entry, rendered |-> rendered, raw_shown |-> raw]

NoOutcome == Outcome("none", 0, NoValue, NoValue, NoEntry, <<>>, FALSE)

\* the except JSONDecodeError handler (lines 362-409)
Fallback(content) ==
    Only({IF matches = <<>>
          THEN Outcome("no_json_like", 3, NoValue, NoValue, NoEntry, <<>>, TRUE)
          ELSE Only({IF FallbackFound(loop.products)
                     THEN Outcome("fallback_found", 3, loop.data, loop.products,
                                  NoEntry, <<>>, FALSE)
                     ELSE Outcome("could_not_extract", 3, loop.data, NoValue,
                                  NoEntry, <<>>, TRUE) :
                        loop \in {FallbackLoop(matches, 1, NoValue, NoValue)}}) :
            matches \in {FindAll(content)}})

\* display_results(response_data, price_calc_objective), with the tech_spec
\* it reads and the time.strftime value ts
DisplayResults(response_data, objective, spec, ts) ==
    IF response_data.error
    THEN Outcome("api_error", 0, NoValue, NoValue, NoEntry, <<>>, FALSE)
    ELSE Only({IF p.raised THEN Fallback(response_data.content)
               ELSE IF ~IsList(Normalize(p.data))
               THEN Outcome("shape_error", p.step, p.data, NoValue, NoEntry, <<>>, FALSE)
               ELSE Only({Outcome(IF RenderRaises(products.items)
                                  THEN "processing_error" ELSE "shown",
                                  p.step, p.data, products,
                                  HistoryEntry(ts, spec, objective, products),
                                  [i \in 1..Len(RenderedPrefix(products.items)) |->
                                      ProductView(products.items[i])],
                                  RenderRaises(products.items)) :
                            products \in {Normalize(p.data)}}) :
                p \in {ParseContent(response_data.content)}})

(***************************************************************************)
(* The Search History tab (lines 440-547).                                 *)
(***************************************************************************)
\* the loop of lines 446-484 raises: the script run ends in an exception
HistoryTabRaises(history) ==
    \E e \in 1..Len(history) :
        \E j \in 1..Len(history[e].results) : GetRaises(history[e].results[j])

\* "View Full Details" of entry e raises (lines 487-547)
FullDetailsRaises(history, e) ==
    \E j \in 1..Len(history[e].results) : DetailRaises(history[e].results[j])

(***************************************************************************)
(* Inputs.                                                                 *)
(***************************************************************************)
\* line 56
DefaultDomains ==
    <<"vaistai.lt", "kainos.lt", "kaina24.lt", "gintarine.lt",
      "eurovaistine.lt", "manovaistine.lt">>

\* what the user types into "Add new domain"
DomainInputs == {"example.lt", "kainos.lt"}

\* line 109
Objectives == {"none", "unit", "kg", "liter", "package"}

\* what the user types as technical specification: a text is a sequence of
\* tokens, the empty text is <<>>
SpecTexts == {<<>>, <<"smartphone 6GB RAM">>}

\* what the user types as unit type (line 129)
UnitTexts == {<<>>, <<"tablet">>}

\* values of time.strftime
Times == {1, 2}

ProseTokens == {"w", WS, "[", "]", "{", "}"}

ProseUpTo(n) == UNION {[1..k -> ProseTokens] : k \in 0..n}

\* the prose before and after an embedded document
ProsePairs ==
    {pp \in ProseUpTo(MaxProse) \X ProseUpTo(MaxProse) : Len(pp[1]) + Len(pp[2]) <= MaxProse}

Key(w) == <<w>>

Word == Str(<<"w">>)

Leaves == {Num(1), Word}

Named == Obj(<<Key("product_name")>>, <<Word>>)

BadProps == Obj(<<Key("product_properties")>>, <<Word>>)

EmptyObj == Obj(<<>>, <<>>)

Elems == {EmptyObj, Named, BadProps, Num(1)}

ArraysUpTo(n) == {Arr(items) : items \in UNION {[1..k -> Elems] : k \in 0..n}}

Envelopes ==
    {Obj(<<Key(k)>>, <<v>>) : k \in {"products", "w"},
                              v \in ArraysUpTo(1) \cup Leaves \cup {EmptyObj}}
    \cup {Obj(<<Key("w"), Key("products")>>, <<Num(1), a>>) : a \in ArraysUpTo(1)}
    \cup {Obj(<<Key("products"), Key("w")>>, <<a, Num(1)>>) : a \in ArraysUpTo(1)}

Nested == {Arr(<<a>>) : a \in ArraysUpTo(1)}

\* the JSON documents a reply may hold
Docs == Leaves \cup Elems \cup ArraysUpTo(2) \cup Envelopes \cup Nested

\* arrays of one or more JSON objects
ProductArrays ==
    {a \in ArraysUpTo(2) : a.items # <<>> /\ \A i \in 1..Len(a.items) : IsDict(a.items[i])}

DocText(doc, style) == IF doc = NoValue THEN <<>> ELSE Serialize(doc, style)

Reply(status, pre, doc, post, style) ==
    [status |-> status, text |-> pre \o DocText(doc, style) \o post,
     pre |-> pre, doc |-> doc, post |-> post]

NoReply == Reply(0, <<>>, NoValue, <<>>, "compact")

\* replies with status 200: a document, or none, in prose
ExtractReplies ==
    {Reply(200, pp[1], doc, pp[2], style) :
        pp \in ProsePairs, doc \in Docs \cup {NoValue}, style \in {"compact", "pretty"}}

\* the replies of a session
SessionReplies ==
    {Reply(200, pre, doc, <<>>, "compact") :
        pre \in {<<>>, <<"w">>},
        doc \in {Arr(<<Named>>), Arr(<<Num(1)>>), Arr(<<BadProps>>), Arr(<<>>)}}
    \cup {Reply(200, <<>>, Obj(<<Key("w")>>, <<Num(1)>>), <<>>, "compact"),
          Reply(200, <<"w">>, NoValue, <<>>, "compact"),
          Reply(500, <<"w">>, NoValue, <<>>, "compact"),
          Reply(404, <<>>, Arr(<<Named>>), <<>>, "compact")}

(***************************************************************************)
(* generate_prompt (lines 136-200).  The prompt is a text: the lines of    *)
(* the template are single tokens, "nl" is the line break, and the fields  *)
(* of the JSON example are spelled out in tokens (the indentation of a     *)
(* line is left out).                                                      *)
(***************************************************************************)
NL == "nl"

InstructionHead == "5. Calculate and include price per"
InstructionTail == "for each product"

\* a string field of the JSON example: "name": "text",
SchemaField(name, text) == <<NL, DQ, name, DQ, ":", DQ, text, DQ, ",">>

\* lines 138-146
PromptBase(spec) ==
    <<"Analyze the Lithuanian market and gather detailed product information according to the following technical specification:", NL>>
    \o spec
    \o <<NL, NL, "Follow these guidelines:",
         NL, "1. Tik Lietuviski puslapiai",
         NL, "2. Verify the product is currently available for purchase",
         NL, "3. Gather accurate pricing in EUR",
         NL, "4. Evaluate technical specification requirements one by one", NL>>

\* lines 151 and 183
UnitType(custom_unit) == IF custom_unit # <<>> THEN custom_unit ELSE <<"unit">>

\* lines 149-158
PromptInstruction(objective, custom_unit) ==
    IF objective = "none" THEN <<>>
    ELSE IF objective = "unit"
         THEN <<NL, InstructionHead>> \o UnitType(custom_unit) \o <<InstructionTail>>
    ELSE IF objective = "kg" THEN <<NL, InstructionHead, "kilogram", InstructionTail>>
    ELSE IF objective = "liter" THEN <<NL, InstructionHead, "liter", InstructionTail>>
    ELSE IF objective = "package" THEN <<NL, InstructionHead, "package", InstructionTail>>
    ELSE <<>>

\* lines 161-178
PromptSchemaHead ==
    <<NL, NL, "Results should be evaluated from all given domains.",
      NL, "IMPORTANT: Your response MUST be formatted EXACTLY as a valid JSON array of product objects.",
      NL, "Each product in the array should have the following fields:",
      NL, NL, "[", NL, "{">>
    \o SchemaField("provider", "Company selling the product")
    \o SchemaField("provider_website", "Main website domain (e.g., telia.lt)")
    \o SchemaField("provider_url", "Full URL to the specific product page")
    \o SchemaField("product_name", "Complete product name with model")
    \o <<NL, DQ, "product_properties", DQ, ":", "{">>
    \o <<NL, DQ, "key_spec1", DQ, ":", DQ, "value1", DQ, ",">>
    \o <<NL, DQ, "key_spec2", DQ, ":", DQ, "value2", DQ>>
    \o <<NL, "}", ",">>
    \o SchemaField("product_sku", "Any product identifiers (SKU, UPC, model number)")
    \o <<NL, DQ, "product_price", DQ, ":", "299.99", ",">>

\* the price field under the same key for every objective
PromptPriceFieldsFixedKey(objective, custom_unit) ==
    IF objective = "none" THEN <<>>
    ELSE <<NL, DQ, "price_per_", "unit", DQ, ":", "9.99", ",">>
         \o (IF objective = "unit"
             THEN <<NL, DQ, "unit_type", DQ, ":", DQ>> \o UnitType(custom_unit) \o <<DQ, ",">>
             ELSE <<>>)

\* lines 181-189
PromptPriceFields(objective, custom_unit) ==
    IF objective = "none" THEN <<>>
    ELSE IF objective = "unit"
         THEN <<NL, DQ, "price_per_", objective, DQ, ":", "9.99", ",">>
              \o <<NL, DQ, "unit_type", DQ, ":", DQ>> \o UnitType(custom_unit) \o <<DQ, ",">>
    ELSE <<NL, DQ, "price_per_", objective, DQ, ":", "9.99", ",">>

\* lines 192-199
PromptTail ==
    <<NL, DQ, "evaluation", DQ, ":", DQ,
      "Detailed assessment of how the product meets or fails each technical specification", DQ,
      NL, "}", NL, "]", NL, NL,
      "DO NOT include any explanation, preamble, or additional text - ONLY provide the JSON array.",
      NL, "try to present at least 5 products", NL>>

\* generate_prompt(tech_spec, price_calc_objective, custom_unit)
GeneratePrompt(spec, objective, custom_unit) ==
    PromptBase(spec) \o PromptInstruction(objective, custom_unit)
    \o PromptSchemaHead \o PromptPriceFields(objective, custom_unit) \o PromptTail

\* before any search
NoPrompt == <<>>

(***************************************************************************)
(* The script.  Each action is one run, top to bottom: the domain widgets  *)
(* (lines 65-104), the search (lines 417-438), then the history tab        *)
(* (lines 440-547), whose exception nothing catches.                       *)
(***************************************************************************)
\* no "Add Domain" in the run
NoAdd == [new_domain |-> "", signal |-> "none", domains |-> <<>>]

\* no "Reset to Default Domains" in the run
NoReset == [done |-> FALSE, domains |-> <<>>]

Init ==
    /\ tech_spec = <<>>
    /\ price_calc_objective = "none"
    /\ custom_calc_unit = <<>>
    /\ search_domains = DefaultDomains
    /\ unticked = {}
    /\ add_result = NoAdd
    /\ reset_from = NoReset
    /\ search_history = <<>>
    /\ prompt = NoPrompt
    /\ sent_domains = <<>>
    /\ response = NoReply
    /\ outcome = NoOutcome
    /\ http_requests = 0
    /\ searches = 0
    /\ runs = 0
    /\ crashed = FALSE
    /\ phase = "idle"
    /\ discovered = <<>>
    /\ url_results = <<>>
    /\ aggregate = <<>>
    /\ warnings = <<>>

\* a run in which no handler changes the session state: every checkbox
\* drawn is ticked, and the value of a checkbox that is not drawn is dropped
Rerun ==
    /\ runs' = runs + 1
    /\ crashed' = HistoryTabRaises(search_history)
    /\ unticked' = {}
    /\ add_result' = NoAdd
    /\ reset_from' = NoReset
    /\ UNCHANGED <<search_domains, search_history, prompt, sent_domains, response,
                   outcome, http_requests, searches, orchVars>>

\* the user edits the technical specification (line 46)
SetSpec(s) ==
    /\ s # tech_spec
    /\ tech_spec' = s
    /\ UNCHANGED <<price_calc_objective, custom_calc_unit>>
    /\ Rerun

\* the user picks a price calculation objective (line 117); the unit type
\* input is there for "unit" only, and starts empty (lines 124-132)
SetObjective(o) ==
    /\ o # price_calc_objective
    /\ price_calc_objective' = o
    /\ custom_calc_unit' = <<>>
    /\ UNCHANGED tech_spec
    /\ Rerun

\* the user types a unit type (lines 128-132)
SetCustomUnit(u) ==
    /\ price_calc_objective = "unit"
    /\ u # custom_calc_unit
    /\ custom_calc_unit' = u
    /\ UNCHANGED <<tech_spec, price_calc_objective>>
    /\ Rerun

\* lines 75-80
AddedDomains(domains, d) == IF d \notin {domains[i] : i \in 1..Len(domains)}
                            THEN Append(domains, d) ELSE domains

\* an "Add Domain" that appends whether or not the domain is there
AddResultAlwaysAppends(domains, d) ==
    IF d = "" THEN NoAdd
    ELSE [new_domain |-> d, signal |-> "added", domains |-> Append(domains, d)]

\* the "Add Domain" handler (lines 75-80): the signal shown and the list
\* it leaves
AddResult(domains, d) ==
    IF d = "" THEN NoAdd
    ELSE [new_domain |-> d,
          signal |-> IF d \notin {domains[i] : i \in 1..Len(domains)}
                     THEN "added" ELSE "present",
          domains |-> AddedDomains(domains, d)]

\* list.remove(d) (line 99)
RemovedDomain(domains, d) ==
    LET i == Min({k \in 1..Len(domains) : domains[k] = d})
    IN  SubSeq(domains, 1, i - 1) \o SubSeq(domains, i + 1, Len(domains))

\* lines 84-99: the domains whose checkbox is drawn unticked are removed
Pruned(domains, off) == SelectSeq(domains, LAMBDA d : d \notin off)

\* "Add Domain" with d typed in (lines 75-80), then the checkboxes (lines
\* 84-99).  The checkbox of a domain unticked in the run before is still in
\* the browser: when d comes back in this run its checkbox is drawn with the
\* value the browser holds (unticked, d is removed again) or as a new one.
AddDomain(d) ==
    /\ \E res \in {AddResult(search_domains, d)} :
        /\ add_result' = res
        /\ IF res = NoAdd
           THEN UNCHANGED search_domains /\ unticked' = {}
           ELSE \/ search_domains' = res.domains /\ unticked' = {}
                \/ /\ d \in unticked
                   /\ search_domains' = Pruned(res.domains, unticked)
                   /\ unticked' = {d}
    /\ reset_from' = NoReset
    /\ runs' = runs + 1
    /\ crashed' = HistoryTabRaises(search_history)
    /\ UNCHANGED <<tech_spec, price_calc_objective, custom_calc_unit, search_history,
                   prompt, sent_domains, response, outcome, http_requests, searches,
                   orchVars>>

\* the user unticks the checkbox of d (lines 88-99)
DeselectDomain(d) ==
    /\ \E i \in 1..Len(search_domains) : search_domains[i] = d
    /\ search_domains' = RemovedDomain(search_domains, d)
    /\ unticked' = {d}
    /\ add_result' = NoAdd
    /\ reset_from' = NoReset
    /\ runs' = runs + 1
    /\ crashed' = HistoryTabRaises(search_history)
    /\ UNCHANGED <<tech_spec, price_calc_objective, custom_calc_unit, search_history,
                   prompt, sent_domains, response, outcome, http_requests, searches,
                   orchVars>>

\* a reset that keeps the domains the user added
ResetKeepsAdded(domains) ==
    DefaultDomains
    \o SelectSeq(domains, LAMBDA d : d \notin {DefaultDomains[i] : i \in 1..Len(DefaultDomains)})

\* line 103
ResetTo(domains) == DefaultDomains

\* "Reset to Default Domains" and the rerun it asks for (lines 102-104)
ResetDomains ==
    /\ search_domains' = ResetTo(search_domains)
    /\ unticked' = {}
    /\ add_result' = NoAdd
    /\ reset_from' = [done |-> TRUE, domains |-> search_domains]
    /\ runs' = runs + 1
    /\ crashed' = HistoryTabRaises(search_history)
    /\ UNCHANGED <<tech_spec, price_calc_objective, custom_calc_unit, search_history,
                   prompt, sent_domains, response, outcome, http_requests, searches,
                   orchVars>>

\* a history that keeps the latest entry only
RecordedLatestOnly(history, out) ==
    IF out.entry = NoEntry THEN history ELSE <<out.entry>>

\* st.session_state.search_history after display_results (lines 286-295)
Recorded(history, out) ==
    IF out.entry = NoEntry THEN history ELSE Append(history, out.entry)

\* the selected domains, sent as they are when there is none
ActiveDomainsNoDefault(domains, off) == SelectSeq(domains, LAMBDA d : d \notin off)

\* lines 427-432: the domains whose checkbox value is not False, or the
\* default domains when there is none
ActiveDomains(domains, off) ==
    LET active_domains == SelectSeq(domains, LAMBDA d : d \notin off)
    IN  IF active_domains = <<>> THEN DefaultDomains ELSE active_domains

\* "Search Products" (lines 417-438): the provider answers with reply, and
\* time.strftime gives ts
Search(reply, ts) ==
    /\ tech_spec # <<>>
    /\ prompt' = GeneratePrompt(tech_spec, price_calc_objective, custom_calc_unit)
    /\ sent_domains' = ActiveDomains(search_domains, unticked)
    /\ \E out \in {DisplayResults(QueryPerplexity(reply), price_calc_objective, tech_spec, ts)} :
           /\ outcome' = out
           /\ search_history' = Recorded(search_history, out)
           /\ crashed' = HistoryTabRaises(Recorded(search_history, out))
    /\ response' = reply
    /\ http_requests' = http_requests + PostsPerQuery(reply)
    /\ searches' = searches + 1
    /\ runs' = runs + 1
    /\ unticked' = {}
    /\ add_result' = NoAdd
    /\ reset_from' = NoReset
    /\ UNCHANGED <<tech_spec, price_calc_objective, custom_calc_unit, search_domains,
                   orchVars>>

\* "View Full Details" of history entry e (lines 487-547); the button is
\* there when the previous run drew the tab as far as entry e
ViewFullDetails(e) ==
    /\ e \in 1..Len(search_history)
    /\ ~HistoryTabRaises(SubSeq(search_history, e, Len(search_history)))
    /\ runs' = runs + 1
    /\ crashed' = (HistoryTabRaises(search_history) \/ FullDetailsRaises(search_history, e))
    /\ unticked' = {}
    /\ add_result' = NoAdd
    /\ reset_from' = NoReset
    /\ UNCHANGED <<tech_spec, price_calc_objective, custom_calc_unit, search_domains,
                   search_history, prompt, sent_domains, response, outcome,
                   http_requests, searches, orchVars>>

Next ==
    \/ runs < MaxRuns /\ \E s \in SpecTexts : SetSpec(s)
    \/ runs < MaxRuns /\ \E o \in Objectives : SetObjective(o)
    \/ runs < MaxRuns /\ \E u \in UnitTexts : SetCustomUnit(u)
    \/ runs < MaxRuns /\ \E d \in DomainInputs : AddDomain(d)
    \/ runs < MaxRuns /\ \E d \in {search_domains[i] : i \in 1..Len(search_domains)} :
                             DeselectDomain(d)
    \/ runs < MaxRuns /\ ResetDomains
    \/ runs < MaxRuns /\ \E reply \in SessionReplies, ts \in Times : Search(reply, ts)
    \/ runs < MaxRuns /\ \E e \in 1..Len(search_history) : ViewFullDetails(e)

Spec == Init /\ [][Next]_vars

(***************************************************************************)
(* One search on every reply text of the bounded families.                 *)
(***************************************************************************)
InitExtract ==
    /\ tech_spec \in SpecTexts \ {<<>>}
    /\ price_calc_objective = "kg"
    /\ custom_calc_unit = <<>>
    /\ search_domains = DefaultDomains
    /\ unticked = {}
    /\ add_result = NoAdd
    /\ reset_from = NoReset
    /\ search_history = <<>>
    /\ prompt = NoPrompt
    /\ sent_domains = <<>>
    /\ response = NoReply
    /\ outcome = NoOutcome
    /\ http_requests = 0
    /\ searches = 0
    /\ runs = 0
    /\ crashed = FALSE
    /\ phase = "idle"
    /\ discovered = <<>>
    /\ url_results = <<>>
    /\ aggregate = <<>>
    /\ warnings = <<>>

NextExtract == searches = 0 /\ \E reply \in ExtractReplies : Search(reply, 1)

SpecExtract == InitExtract /\ [][NextExtract]_vars

(***************************************************************************)
(* A session of domain operations, with the specification typed in, long   *)
(* enough to untick every default domain and search.                       *)
(***************************************************************************)
\* what the "Add new domain" input holds when "Add Domain" is activated
DomainTexts == DomainInputs \cup {""}

\* the provider's answers in a session of domain operations
DomainReplies == {Reply(200, <<>>, Arr(<<Named>>), <<>>, "compact")}

InitDomains ==
    /\ tech_spec \in SpecTexts \ {<<>>}
    /\ price_calc_objective = "none"
    /\ custom_calc_unit = <<>>
    /\ search_domains = DefaultDomains
    /\ unticked = {}
    /\ add_result = NoAdd
    /\ reset_from = NoReset
    /\ search_history = <<>>
    /\ prompt = NoPrompt
    /\ sent_domains = <<>>
    /\ response = NoReply
    /\ outcome = NoOutcome
    /\ http_requests = 0
    /\ searches = 0
    /\ runs = 1
    /\ crashed = FALSE
    /\ phase = "idle"
    /\ discovered = <<>>
    /\ url_results = <<>>
    /\ aggregate = <<>>
    /\ warnings = <<>>

NextDomains ==
    \/ runs < MaxDomainRuns /\ \E d \in DomainTexts : AddDomain(d)
    \/ runs < MaxDomainRuns /\ \E d \in {search_domains[i] : i \in 1..Len(search_domains)} :
                                   DeselectDomain(d)
    \/ runs < MaxDomainRuns /\ ResetDomains
    \/ runs < MaxDomainRuns /\ searches < MaxDomainSearches
          /\ \E reply \in DomainReplies : Search(reply, 1)

SpecDomains == InitDomains /\ [][NextDomains]_vars

(***************************************************************************)
(* A session that builds the prompt of a search, over specification texts  *)
(* of one and several lines, some of them worded like the template.        *)
(***************************************************************************)
PromptSpecTexts ==
    {<<"smartphone 6GB RAM">>,
     <<"smartphone 6GB RAM", NL, "128GB storage">>,
     <<"vitamin C 1000mg", NL, "at least 60 tablets", NL, "price per kilogram below 5 EUR">>,
     <<InstructionHead, "kilogram", InstructionTail>>,
     <<"washing powder", NL, InstructionHead, "liter", InstructionTail>>,
     <<DQ, "price_per_", "kg", DQ, ":", Digit>>,
     <<"paracetamol 500mg", NL, DQ, "unit_type", DQ, ":", DQ, "tablet", DQ>>}

\* the provider's answers in a session that builds a prompt
PromptReplies == {Reply(200, <<>>, Arr(<<Named>>), <<>>, "compact")}

NextPrompt ==
    \/ runs < MaxPromptRuns /\ \E s \in PromptSpecTexts : SetSpec(s)
    \/ runs < MaxPromptRuns /\ \E o \in Objectives : SetObjective(o)
    \/ runs < MaxPromptRuns /\ \E u \in UnitTexts : SetCustomUnit(u)
    \/ runs < MaxPromptRuns /\ \E reply \in PromptReplies : Search(reply, 1)

SpecPrompt == Init /\ [][NextPrompt]_vars

(***************************************************************************)
(* The two-phase orchestrator of the OpenAI variant.  One request finds    *)
(* the product pages; then one request per URL, in discovery order,        *)
(* extracts the products of that page.  A URL whose request fails, or      *)
(* whose answer does not parse, gets a warning and the loop goes on.       *)
(***************************************************************************)
\* the URLs the provider's citation annotations may name
Urls == {"url1", "url2", "url3", "url4"}

\* the URL lists of URL discovery: no URL, or URLs in some order
UrlLists ==
    {u \in UNION {[1..n -> Urls] : n \in 0..MaxUrls} :
        \A i, j \in 1..Len(u) : i # j => u[i] # u[j]}

\* the outcomes of the request for one URL: the product list parsed from
\* the answer, a parse failure, or a transport failure
UrlOutcomes ==
    {[kind |-> "parsed", products |-> ps] : ps \in {<<>>, <<Named>>, <<EmptyObj, Named>>}}
    \cup {[kind |-> k, products |-> <<>>] : k \in {"parse_failure", "transport_failure"}}

\* an aggregate that a failed URL empties
AggregatedUntilFailure(products, result) ==
    IF result.kind = "parsed" THEN products \o result.products ELSE <<>>

\* the aggregate after one URL
Aggregated(products, result) ==
    IF result.kind = "parsed" THEN products \o result.products ELSE products

\* the warnings after one URL
Warned(list, url, result) ==
    IF result.kind = "parsed" THEN list ELSE Append(list, url)

\* stage URL-Discovery: the provider names the product pages
DiscoverUrls(urls) ==
    /\ phase = "idle"
    /\ phase' = "extraction"
    /\ discovered' = urls
    /\ UNCHANGED <<url_results, aggregate, warnings, appVars>>

\* stage URL-Discovery fails: the search ends with an API error
DiscoverFails ==
    /\ phase = "idle"
    /\ phase' = "api_error"
    /\ UNCHANGED <<discovered, url_results, aggregate, warnings, appVars>>

\* stage Per-URL Extraction: the request for the next URL ends with result
ExtractFromUrl(result) ==
    /\ phase = "extraction"
    /\ Len(url_results) < Len(discovered)
    /\ url_results' = Append(url_results, result)
    /\ aggregate' = Aggregated(aggregate, result)
    /\ warnings' = Warned(warnings, discovered[Len(url_results) + 1], result)
    /\ UNCHANGED <<phase, discovered, appVars>>

\* the last URL is processed
Complete ==
    /\ phase = "extraction"
    /\ Len(url_results) = Len(discovered)
    /\ phase' = "completed"
    /\ UNCHANGED <<discovered, url_results, aggregate, warnings, appVars>>

NextOrchestrator ==
    \/ \E urls \in UrlLists : DiscoverUrls(urls)
    \/ DiscoverFails
    \/ \E result \in UrlOutcomes : ExtractFromUrl(result)
    \/ Complete

\* the loop is sequential and every request returns
SpecOrchestrator == Init /\ [][NextOrchestrator]_vars /\ WF_vars(NextOrchestrator)

(***************************************************************************)
(* Properties.                                                             *)
(***************************************************************************)
\* t holds the opening of the step-1 pattern: "[" then "{", or
\* "{" then "products" then ":", whitespace apart
OpensPattern(t) ==
    \E i \in 1..Len(t) :
        \/ t[i] = "[" /\ SkipWs(t, i + 1) <= Len(t) /\ t[SkipWs(t, i + 1)] = "{"
        \/ /\ t[i] = "{"
           /\ SkipWs(t, i + 1) + 2 <= Len(t)
           /\ SubSeq(t, SkipWs(t, i + 1), SkipWs(t, i + 1) + 2) = <<DQ, "products", DQ>>
           /\ SkipWs(t, SkipWs(t, i + 1) + 3) <= Len(t)
           /\ t[SkipWs(t, SkipWs(t, i + 1) + 3)] = ":"

\* t holds the closing of the step-1 array pattern: "}" then "]", whitespace apart
ClosesPattern(t) ==
    \E q \in 1..Len(t) :
        t[q] = "}" /\ SkipWs(t, q + 1) <= Len(t) /\ t[SkipWs(t, q + 1)] = "]"

\* the search recorded exactly the list v
RecordedList(v) ==
    /\ outcome.products = v
    /\ outcome.kind \in {"shown", "processing_error"}
    /\ Len(search_history) = 1
    /\ search_history[1].results = v.items

PureJson == searches = 1 /\ JsonLoads(response.text).ok

\* a top-level array of objects, or an object whose only key is "products"
\* with an array value
TopLevelProducts(v) ==
    \/ IsList(v) /\ v.items # <<>> /\ \A i \in 1..Len(v.items) : IsDict(v.items[i])
    \/ IsDict(v) /\ v.keys = <<Key("products")>> /\ IsList(v.vals[1])

\* C2 as stated: for a text that is valid JSON the extractor parses the
\* whole text
C2_PureJsonParsedWhole ==
    PureJson => outcome.data = JsonLoads(response.text).val

\* C2 amended: for a text that is valid JSON step 1 or step 2 succeeds; the
\* parsed value is the whole text's when step 2 produced it or when the
\* document is a top-level array of objects or a products-only envelope;
\* otherwise it is the span the step-1 pattern matched
C2_PureJsonParsedWholeOrMatch ==
    PureJson =>
        /\ outcome.step \in {1, 2}
        /\ outcome.step = 2 => outcome.data = JsonLoads(response.text).val
        /\ TopLevelProducts(JsonLoads(response.text).val)
              => outcome.data = JsonLoads(response.text).val
        /\ outcome.step = 1 =>
              /\ JsonMatch(response.text).found
              /\ outcome.data =
                    JsonLoads(SubSeq(response.text, JsonMatch(response.text).from,
                                     JsonMatch(response.text).to)).val

\* a products-only envelope in whitespace, parsed whole by step 1
C2_Witness ==
    /\ PureJson
    /\ response.pre = <<WS>>
    /\ response.post = <<WS>>
    /\ outcome.step = 1
    /\ IsDict(outcome.data)
    /\ outcome.data = response.doc

\* C3: a list that step 3 recovers is displayed and recorded as a list of
\* step 1 or 2 is
C3_FallbackDisplayedAndRecorded ==
    (searches >= 1 /\ outcome.step = 3 /\ outcome.products # NoValue)
        => /\ outcome.entry # NoEntry
           /\ Len(search_history) >= 1
           /\ search_history[Len(search_history)].results = outcome.products.items
           /\ Len(outcome.rendered) = Len(RenderedPrefix(outcome.products.items))

\* the normalization of the claim C4 applied to the parsed value d
NormalizedAsStated(d) ==
    IF IsDict(d) /\ HasKey(d, Key("products")) /\ IsList(GetKey(d, Key("products")))
    THEN RecordedList(GetKey(d, Key("products")))
    ELSE IF IsList(d) THEN RecordedList(d)
    ELSE /\ outcome.kind = "shape_error"
         /\ outcome.products = NoValue
         /\ outcome.rendered = <<>>
         /\ search_history = <<>>

NoJsonLike == searches = 1 /\ FindAll(response.text) = <<>>

\* C5 as stated: a text without a JSON-like span ends in the
\* malformed-response error with the raw text, nothing shown or recorded
C5_NoSpanIsMalformed ==
    NoJsonLike =>
        /\ outcome.kind \in {"no_json_like", "could_not_extract"}
        /\ outcome.raw_shown
        /\ outcome.products = NoValue
        /\ search_history = <<>>

\* C5 amended: so it does unless the whole text is a JSON scalar, which ends
\* in the unexpected-shape error; in both cases nothing is shown or recorded
C5_NoSpanIsMalformedOrScalar ==
    NoJsonLike =>
        /\ outcome.products = NoValue
        /\ outcome.rendered = <<>>
        /\ search_history = <<>>
        /\ IF JsonLoads(response.text).ok
           THEN outcome.kind = "shape_error"
                /\ JsonLoads(response.text).val.t \in {"num", "str"}
           ELSE outcome.kind = "no_json_like" /\ outcome.raw_shown

\* a text of a closing and an opening bracket: no span, malformed
C5_Witness ==
    /\ NoJsonLike
    /\ response.text = <<"]", "[">>
    /\ outcome.kind = "no_json_like"
    /\ outcome.raw_shown
    /\ search_history = <<>>

\* C6: a search that produces a product list appends exactly one entry with
\* the timestamp, the spec, the objective and the list; a search that ends
\* in a reported error appends none
C6_OneEntryPerProducedList ==
    [][searches' = searches + 1 =>
          IF outcome'.kind \in {"shown", "fallback_found"}
          THEN \E ts \in Times :
                  search_history' =
                      Append(search_history,
                             HistoryEntry(ts, tech_spec, price_calc_objective,
                                          outcome'.products))
          ELSE search_history' = search_history]_vars

\* C7: the history never shrinks and no entry in it changes
C7_HistoryAppendOnly ==
    [][/\ Len(search_history') >= Len(search_history)
       /\ \A i \in 1..Len(search_history) : search_history'[i] = search_history[i]]_vars

\* two entries recorded, the domain set changed after them
C7_Witness ==
    /\ Len(search_history) = 2
    /\ search_history[1] # search_history[2]
    /\ search_domains # DefaultDomains
    /\ runs = searches + 2

\* C8: a non-200 answer comes back as an error value with the status and the
\* body; no extraction is tried, the history and the domain set stay
C8_Non200Aborts ==
    [][(searches' = searches + 1 /\ response'.status # 200) =>
          /\ QueryPerplexity(response').error
          /\ QueryPerplexity(response').status = response'.status
          /\ QueryPerplexity(response').content = response'.text
          /\ outcome'.kind = "api_error"
          /\ outcome'.step = 0
          /\ outcome'.data = NoValue
          /\ outcome'.products = NoValue
          /\ outcome'.rendered = <<>>
          /\ search_history' = search_history
          /\ search_domains' = search_domains]_vars

\* a 404 whose body is a product array, after a recorded search and a
\* change of the domain set
C8_Witness ==
    /\ response.status = 404
    /\ response.doc \in ProductArrays
    /\ outcome.kind = "api_error"
    /\ Len(search_history) = 1
    /\ search_domains # DefaultDomains

\* C9: no run of the script ends in an uncaught exception
C9_NoUncaughtException == ~crashed

\* C10: a run posts one request when it is a search and none otherwise
C10_OneRequestPerSearch ==
    [][http_requests' = http_requests + (IF searches' = searches + 1 THEN 1 ELSE 0)]_vars

\* two searches, the last answered with a non-200 status: two requests
C10_Witness ==
    /\ searches = 2
    /\ http_requests = 2
    /\ response.status # 200
    /\ Len(search_history) = 1

Domains(list) == {list[i] : i \in 1..Len(list)}

HasDuplicate(list) == \E i, j \in 1..Len(list) : i # j /\ list[i] = list[j]

C12_ResetRestoresDefaults ==
    /\ DefaultDomains = <<"vaistai.lt", "kainos.lt", "kaina24.lt", "gintarine.lt",
                          "eurovaistine.lt", "manovaistine.lt">>
    /\ reset_from.done =>
          /\ search_domains = <<"vaistai.lt", "kainos.lt", "kaina24.lt", "gintarine.lt",
                                "eurovaistine.lt", "manovaistine.lt">>
          /\ unticked = {}

\* a reset of the emptied list
C12_Witness ==
    /\ reset_from.done
    /\ reset_from.domains = <<>>
    /\ search_domains = DefaultDomains

\* C15: the domain filter of a search request is never empty: it is the
\* search-domain list restricted to the domains whose checkbox is not
\* unticked, in list order, or the six default domains when that is empty,
\* and the search leaves the search-domain list as it is
C15_DomainFilterNeverEmpty ==
    [][searches' = searches + 1 =>
          /\ sent_domains' # <<>>
          /\ search_domains' = search_domains
          /\ LET selected == SelectSeq(search_domains, LAMBDA d : d \notin unticked)
             IN  sent_domains' = IF selected # <<>> THEN selected
                                 ELSE <<"vaistai.lt", "kainos.lt", "kaina24.lt",
                                        "gintarine.lt", "eurovaistine.lt",
                                        "manovaistine.lt">>]_vars

\* a search with every domain unticked
C15_Witness ==
    /\ searches = 1
    /\ search_domains = <<>>
    /\ sent_domains = DefaultDomains
    /\ http_requests = 1

\* the positions where a line of text t starts
LineStarts(t) == {i \in 1..(Len(t) + 1) : i = 1 \/ t[i - 1] = NL}

\* the line of text t that starts at position i
LineAt(t, i) == SubSeq(t, i, Min({k \in i..Len(t) : t[k] = NL} \cup {Len(t) + 1}) - 1)

\* "5. Calculate and include price per ... for each product"
IsInstructionLine(line) ==
    Len(line) >= 3 /\ line[1] = InstructionHead /\ line[Len(line)] = InstructionTail

InstructionLines(t) == {i \in LineStarts(t) : IsInstructionLine(LineAt(t, i))}

\* the x of every key "price_per_x" of text t
PricePerKeys(t) ==
    {t[k + 2] : k \in {i \in 1..(Len(t) - 4) :
                          /\ t[i] = DQ /\ t[i + 1] = "price_per_"
                          /\ t[i + 3] = DQ /\ t[i + 4] = ":"}}

HasUnitTypeKey(t) ==
    \E i \in 1..(Len(t) - 3) : SubSeq(t, i, i + 3) = <<DQ, "unit_type", DQ, ":">>

PromptAsStated(p, objective) ==
    /\ objective = "none" => InstructionLines(p) = {} /\ PricePerKeys(p) = {}
    /\ objective # "none" =>
          Cardinality(InstructionLines(p)) = 1 /\ objective \in PricePerKeys(p)
    /\ objective = "kg" =>
          \E i \in LineStarts(p) :
              LineAt(p, i) = <<InstructionHead, "kilogram", InstructionTail>>
    /\ HasUnitTypeKey(p) <=> objective = "unit"

\* no line or key of the template's kind in text t
NoTemplateWording(t) ==
    InstructionLines(t) = {} /\ PricePerKeys(t) = {} /\ ~HasUnitTypeKey(t)

\* C14 as stated: for every spec text, the prompt for objective "none" has
\* no normalization instruction line and no price_per_ key; for the other
\* objectives it has exactly one instruction line and the key
\* price_per_<objective>; the unit_type key is there iff the objective is
\* "unit"
C14_PromptByObjective ==
    [][searches' = searches + 1 => PromptAsStated(prompt', price_calc_objective)]_vars

\* C14, amended: the same, for every spec text that itself holds no
\* normalization instruction line, no price_per_ key and no unit_type key
C14_PromptByObjectiveCleanSpec ==
    [][searches' = searches + 1 /\ NoTemplateWording(tech_spec)
          => PromptAsStated(prompt', price_calc_objective)]_vars

\* a prompt for price per tablet, from a spec text of three lines
C14_Witness ==
    /\ searches = 1
    /\ price_calc_objective = "unit"
    /\ custom_calc_unit = <<"tablet">>
    /\ Len(tech_spec) = 5
    /\ NoTemplateWording(tech_spec)
    /\ \E i \in LineStarts(prompt) :
           LineAt(prompt, i) = <<InstructionHead, "tablet", InstructionTail>>
    /\ PricePerKeys(prompt) = {"unit"}
    /\ HasUnitTypeKey(prompt)

RECURSIVE ParsedProducts(_)
\* the product lists of the parsed results, one after the other
ParsedProducts(results) ==
    IF results = <<>> THEN <<>>
    ELSE IF Head(results).kind = "parsed"
         THEN Head(results).products \o ParsedProducts(Tail(results))
         ELSE ParsedProducts(Tail(results))

RECURSIVE FailedUrls(_, _)
\* the URLs of the failed results, in discovery order
FailedUrls(urls, results) ==
    IF results = <<>> THEN <<>>
    ELSE IF Head(results).kind = "parsed"
         THEN FailedUrls(Tail(urls), Tail(results))
         ELSE <<Head(urls)>> \o FailedUrls(Tail(urls), Tail(results))

\* C13: the URLs are processed in discovery order; a failure on one URL
\* records exactly one warning for it and the later URLs are still
\* processed; the aggregate is the concatenation, in discovery order, of
\* the product lists of exactly the URLs that parsed; and the orchestrator
\* completes after the last URL, however many failed
C13_PartialFailureIsolation ==
    /\ [](/\ Len(url_results) <= Len(discovered)
          /\ aggregate = ParsedProducts(url_results)
          /\ warnings = FailedUrls(discovered, url_results)
          /\ phase = "completed" => Len(url_results) = Len(discovered))
    /\ (phase = "extraction") ~> (phase = "completed")

\* three URLs, the second one unparseable: the products of the first and
\* the third, one warning
C13_Witness ==
    /\ phase = "completed"
    /\ Len(discovered) = 3
    /\ url_results[1].kind = "parsed" /\ url_results[1].products # <<>>
    /\ url_results[2].kind = "parse_failure"
    /\ url_results[3].kind = "parsed" /\ url_results[3].products # <<>>
    /\ aggregate = url_results[1].products \o url_results[3].products
    /\ warnings = <<discovered[2]>>

====
